---------------------------- MODULE Spec2Model ----------------------------
(***************************************************************************)
(* A model of src/main.py: the multi-task RL toy (class MTRL).             *)
(*                                                                         *)
(* Real numbers (torch float tensors) are fixed-point integers in units of *)
(* 1/SCALE.  States and actions are numbered from 0 as in the source.      *)
(* The 0/1 transition tensor T is kept sparse: <<s, a, s2>> \in T stands   *)
(* for T[s, a, s2] = 1, every other entry is 0.                            *)
(***************************************************************************)
EXTENDS Integers, Sequences, FiniteSets, TLC

(***************************************************************************)
(* Fixed-point arithmetic                                                  *)
(***************************************************************************)
SqrtScale == 10^3
SCALE == SqrtScale * SqrtScale

Abs(x) == IF x < 0 THEN -x ELSE x

\* floor(a * b / SCALE), computed in halves so that no intermediate product
\* leaves the 32-bit integers
Mul(a, b) ==
  LET ah == a \div SqrtScale
      al == a % SqrtScale
      bh == b \div SqrtScale
      bl == b % SqrtScale
      mid == ah * bl + al * bh
  IN  ah * bh + (mid \div SqrtScale)
        + (((mid % SqrtScale) * SqrtScale + al * bl) \div SCALE)

\* floor(a * SCALE / b) for 0 <= a <= b, by long division, n decimal digits
RECURSIVE LongDiv(_, _, _)
LongDiv(r, b, n) ==
  IF n = 0 THEN 0
  ELSE ((r * 10) \div b) * 10^(n - 1) + LongDiv((r * 10) % b, b, n - 1)

Div(a, b) == LongDiv(a, b, 6)

\* the partial sums of the series of e^(-f), 0 <= f <= 1, from the term of
\* index k on (term = f^k / k!) until the terms vanish
RECURSIVE ExpSeries(_, _, _)
ExpSeries(f, k, term) ==
  IF term = 0 THEN 0
  ELSE term - ExpSeries(f, k + 1, Mul(term, f) \div (k + 1))

ExpNegFrac(f) == ExpSeries(f, 0, SCALE)

ExpNegOne == ExpNegFrac(SCALE)

RECURSIVE ExpNegInt(_)
ExpNegInt(n) == IF n = 0 THEN SCALE ELSE Mul(ExpNegOne, ExpNegInt(n - 1))

\* e^(-n) for n = 0..14, e^(-d/10) and e^(-d/100) for d = 0..9, tabulated
\* (entry n + 1 for n) with the values that ExpNegInt and ExpNegFrac compute
ExpNegUnits ==
  <<1000000, 367879, 135334, 49786, 18315, 6737, 2478, 911, 335, 123, 45, 16, 5, 1, 0>>
ExpNegTenths ==
  <<1000000, 904838, 818731, 740818, 670320, 606531, 548811, 496586, 449330, 406570>>
ExpNegHundredths ==
  <<1000000, 990050, 980199, 970446, 960790, 951230, 941764, 932393, 923116, 913931>>

\* the tables hold what the series gives
ExpNegTablesExact ==
  /\ \A n \in 0..14 : ExpNegUnits[n + 1] = ExpNegInt(n)
  /\ \A d \in 0..9 : ExpNegTenths[d + 1] = ExpNegFrac(d * (SCALE \div 10))
  /\ \A d \in 0..9 : ExpNegHundredths[d + 1] = ExpNegFrac(d * (SCALE \div 100))

\* e^(-y) for y >= 0, as the product of the factors of the digits of y; below
\* the resolution of 1/SCALE it is 0
ExpNeg(y) ==
  IF y = 0 THEN SCALE
  ELSE IF y \div SCALE > 14 THEN 0
  ELSE Mul(Mul(ExpNegUnits[(y \div SCALE) + 1],
               ExpNegTenths[((y % SCALE) \div (SCALE \div 10)) + 1]),
           Mul(ExpNegHundredths[((y % (SCALE \div 10)) \div (SCALE \div 100)) + 1],
               ExpNegFrac(y % (SCALE \div 100))))

RECURSIVE SumFn(_, _)
SumFn(f, D) ==
  IF D = {} THEN 0
  ELSE LET x == CHOOSE y \in D : TRUE IN f[x] + SumFn(f, D \ {x})

MaxFn(f) == CHOOSE m \in {f[x] : x \in DOMAIN f} : \A x \in DOMAIN f : f[x] <= m

\* torch.argmax / Tensor.max: the first index holding the maximum
ArgMax(f) ==
  CHOOSE a \in DOMAIN f :
    /\ f[a] = MaxFn(f)
    /\ \A b \in DOMAIN f : f[b] = MaxFn(f) => a <= b

\* torch.nn.Softmax over one row x (already multiplied by beta)
Softmax(x) ==
  LET m == MaxFn(x)
      e == [a \in DOMAIN x |-> ExpNeg(m - x[a])]
      z == SumFn(e, DOMAIN x)
  IN  [a \in DOMAIN x |-> Div(e[a], z)]

(***************************************************************************)
(* Module constants, src/main.py lines 11-15                               *)
(***************************************************************************)
GAMMA == 900000
ALPHA == 100000
EPSILON == 100000
BETA == 10

NP == 3
(***************************************************************************)
(* The MTRL object and the locals of the method that is running            *)
(***************************************************************************)
VARIABLES
  dataset,      \* which load_dataset_<index> built the object
  NS, NA,       \* numbers of states and of actions
  T,            \* sparse transition tensor: the set of <<s, a, s2>> with T[s,a,s2] = 1
  phi,          \* state features, [0..NS-1 -> Seq of NP values]
  is_terminal,  \* [0..NS-1 -> {0, 1}]
  pc,           \* position in the running method
  w,            \* task vector argument
  threshold,    \* convergence threshold argument
  V,            \* value_iteration: V
  pi,           \* value_iteration: pi; execute: the policy argument
  delta,        \* value_iteration: delta
  count,        \* value_iteration: count (sweeps started)
  s,            \* value_iteration: index of the for loop over states
  R,            \* 4rooms: sparse reward table, the set of <<s, a>> with R[s,a] = 1
  room,         \* 4rooms: argument of the last change_goal_4rooms (-1: none yet)
  goal_cell,    \* 4rooms: the goal cell of the last load or change_goal_4rooms
  Wtrain,       \* the training tasks, a sequence of task vectors
  state,        \* execute, q_learning: the current state
  reward,       \* execute: the accumulated reward
  path,         \* execute: the states entered so far (history)
  Q,            \* q_learning: the action-value table
  k,            \* q_learning: the task of the running episode
  train_tasks,  \* q_learning: the tasks of the episodes still to run
  actions,      \* q_learning: the action assignment of the last step
  XY,           \* uvfa_train: the shuffled dataset split into mini-batches
  bsize,        \* uvfa_train: argument bsize
  epochs,       \* uvfa_train: argument epochs
  epoch,        \* uvfa_train: index of the loop over epochs
  ib,           \* uvfa_train: index i of the loop over mini-batches
  trained,      \* uvfa_train: the mini-batches of the gradient steps of this epoch
  VPtrain,      \* sfgpi_train: (V, pi) of value_iteration for every candidate task
  psi,          \* sfgpi_train: successor features, per task and state
  widx,         \* sfgpi_train: index of the loop over the tasks
  cand,         \* sfgpi_predict, usfa_predict: the candidate tasks
  returned      \* value_iteration: arguments and result of the call before this one (history)

mdpVars == <<dataset, NS, NA, T, phi, is_terminal>>
viVars == <<pc, w, threshold, V, pi, delta, count, s>>
roomVars == <<R, room, goal_cell>>
exVars == <<state, reward, path>>
qlVars == <<Q, k, train_tasks, actions>>
uvVars == <<XY, bsize, epochs, epoch, ib, trained>>
sfVars == <<VPtrain, psi, widx, cand>>
vars == <<mdpVars, viVars, roomVars, Wtrain, exVars, qlVars, uvVars, sfVars, returned>>

\* what value_iteration and the four-rooms methods leave alone
restVI == <<Wtrain, exVars, qlVars, uvVars, sfVars>>

States(ns) == 0 .. (ns - 1)
Actions(na) == 0 .. (na - 1)

Tenths(row) == [p \in 1..Len(row) |-> row[p] * (SCALE \div 10)]

(***************************************************************************)
(* load_dataset_0 and load_dataset_1f: the 13-state chain MDP              *)
(***************************************************************************)
ChainT ==
  { <<0, 0, 1>>, <<0, 1, 2>>, <<0, 2, 3>>,
    <<1, 0, 4>>, <<1, 1, 5>>, <<1, 2, 6>>,
    <<2, 0, 7>>, <<2, 1, 8>>, <<2, 2, 9>>,
    <<3, 0, 10>>, <<3, 1, 11>>, <<3, 2, 12>> }

ChainTerminal == [i \in 0..12 |-> IF i >= 4 THEN 1 ELSE 0]

Phi0 ==
  LET rows == << <<0, 0, 0>>, <<0, 0, 0>>, <<0, 0, 0>>, <<0, 0, 0>>,
                 <<0, 0, 9>>, <<10, 0, 9>>, <<0, 0, 9>>,
                 <<9, 0, 9>>, <<8, 8, 9>>, <<0, 9, 9>>,
                 <<0, 0, 9>>, <<0, 10, 15>>, <<0, 0, 9>> >>
  IN  [i \in 0..12 |-> Tenths(rows[i + 1])]

Phi1f ==
  LET rows == << <<0, 0, 0>>, <<0, 0, 0>>, <<0, 0, 0>>, <<0, 0, 0>>,
                 <<0, 2, 0>>, <<10, 0, 10>>, <<2, 2, 20>>,
                 <<9, 0, 9>>, <<8, 8, 16>>, <<0, 9, 9>>,
                 <<2, 2, 0>>, <<0, 10, 16>>, <<1, 0, 5>> >>
  IN  [i \in 0..12 |-> Tenths(rows[i + 1])]

\* The handcrafted two-state, one-action chain: state 0 moves to the terminal
\* state 1, whose features make r = phi(1) . w
Chain2T == { <<0, 0, 1>> }
Chain2Terminal == [i \in 0..1 |-> i]
Chain2Phi == [i \in 0..1 |-> IF i = 1 THEN Tenths(<<10, 5, 2>>) ELSE Tenths(<<0, 0, 0>>)]

LoadDataset(d) ==
  /\ dataset = d
  /\ NS = (IF d = "chain2" THEN 2 ELSE 13)
  /\ NA = (IF d = "chain2" THEN 1 ELSE 3)
  /\ T = (IF d = "chain2" THEN Chain2T ELSE ChainT)
  /\ phi = (CASE d = "0" -> Phi0 [] d = "1f" -> Phi1f [] d = "chain2" -> Chain2Phi)
  /\ is_terminal = (IF d = "chain2" THEN Chain2Terminal ELSE ChainTerminal)

(***************************************************************************)
(* Inputs                                                                  *)
(***************************************************************************)
MaxW == 1
Tasks == { <<a * SCALE, b * SCALE, c * SCALE>> : a \in -MaxW..MaxW, b \in -MaxW..MaxW, c \in -MaxW..MaxW }
Thresholds == { SCALE \div 100, SCALE \div 2, 2 * SCALE }

(***************************************************************************)
(* value_iteration, lines 302-324                                          *)
(***************************************************************************)
\* self.phi[i] @ w
PhiW(ph, wv, i) == Mul(ph[i][1], wv[1]) + Mul(ph[i][2], wv[2]) + Mul(ph[i][3], wv[3])

\* VInit starting from the V that the call before left, when there is one
VInitKeep(ns, ph, term, wv) ==
  IF V # <<>> THEN V
  ELSE [i \in States(ns) |-> IF term[i] = 1 THEN PhiW(ph, wv, i) ELSE 0]

\* lines 304-308: V = 0, except V[i] = phi[i] @ w for terminal i
VInit(ns, ph, term, wv) ==
  [i \in States(ns) |-> IF term[i] = 1 THEN PhiW(ph, wv, i) ELSE 0]

\* Vals with the discount forgotten
ValsNoDiscount(ns, ph, wv, v) == [i \in States(ns) |-> PhiW(ph, wv, i) + v[i]]

\* lines 317-318: vals = phi @ w + gamma * V
Vals(ns, ph, wv, v) == [i \in States(ns) |-> PhiW(ph, wv, i) + Mul(GAMMA, v[i])]

\* line 319: Q = T[s] @ vals
QRow(na, tt, st, vals) ==
  [a \in Actions(na) |-> SumFn(vals, {s2 \in DOMAIN vals : <<st, a, s2>> \in tt})]

\* line 320: pi[s] = softmax(beta * Q)
PiRow(q) == Softmax([a \in DOMAIN q |-> BETA * q[a]])

\* VNew taking the entry of index 0 in place of the maximum
VNewFirst(q) == q[0]

\* line 321: V[s] = Q.max()
VNew(q) == MaxFn(q)

\* the fields of the MTRL object that the solvers read
Model == [NS |-> NS, NA |-> NA, T |-> T, phi |-> phi, is_terminal |-> is_terminal]

\* lines 316-322: the body of the for loop for state st, in place on V and pi
VIUpdate(m, wv, acc, st) ==
  LET q == QRow(m.NA, m.T, st, Vals(m.NS, m.phi, wv, acc.V))
      vs == VNew(q)
      ch == Abs(vs - acc.V[st])
  IN  [V |-> [acc.V EXCEPT ![st] = vs],
       pi |-> [acc.pi EXCEPT ![st] = PiRow(q)],
       delta |-> IF ch > acc.delta THEN ch ELSE acc.delta]

\* line 315: the for loop over the states from st on (delta is never
\* negative: its test makes each iteration be evaluated before the next)
RECURSIVE VISweep(_, _, _, _)
VISweep(m, wv, acc, st) ==
  IF st = m.NS \/ acc.delta < 0 THEN acc
  ELSE VISweep(m, wv, VIUpdate(m, wv, acc, st), st + 1)

\* lines 312-324: the while loop, from its test on
RECURSIVE VIWhileLoop(_, _, _, _)
VIWhileLoop(m, wv, th, acc) ==
  IF acc.delta < th THEN acc
  ELSE VIWhileLoop(m, wv, th, VISweep(m, wv, [acc EXCEPT !.delta = 0], 0))

\* lines 302-324: a whole call of value_iteration(w, threshold), its V and pi
ValueIteration(m, wv, th) ==
  VIWhileLoop(m, wv, th,
              [V |-> VInit(m.NS, m.phi, m.is_terminal, wv),
               pi |-> [st \in States(m.NS) |-> [a \in Actions(m.NA) |-> 0]],
               delta |-> th])

\* lines 304-311: the call, up to the first test of the while loop
ValueIterationCall(wv, th) ==
  /\ pc = "idle"
  /\ w' = wv
  /\ threshold' = th
  /\ V' = VInit(NS, phi, is_terminal, wv)
  /\ pi' = [i \in States(NS) |-> [a \in Actions(NA) |-> 0]]
  /\ delta' = th
  /\ count' = 0
  /\ s' = 0
  /\ pc' = "while"
  /\ UNCHANGED <<returned, mdpVars, roomVars, restVI>>

\* VIWhile with line 313 forgotten: delta keeps the value of the sweep before
VIWhileNoReset ==
  /\ pc = "while"
  /\ delta >= threshold
  /\ count' = count + 1
  /\ s' = 0
  /\ pc' = "for"
  /\ UNCHANGED <<returned, mdpVars, roomVars, restVI, w, threshold, V, pi, delta>>

\* lines 312-314: the while test succeeds and a sweep starts
VIWhile ==
  /\ pc = "while"
  /\ delta >= threshold
  /\ delta' = 0
  /\ count' = count + 1
  /\ s' = 0
  /\ pc' = "for"
  /\ UNCHANGED <<returned, mdpVars, roomVars, restVI, w, threshold, V, pi>>

\* lines 315-322: one iteration of the for loop, in place on V and pi
VIFor ==
  /\ pc = "for"
  /\ LET r == VIUpdate(Model, w, [V |-> V, pi |-> pi, delta |-> delta], s)
     IN  /\ pi' = r.pi
         /\ V' = r.V
         /\ delta' = r.delta
  /\ s' = s + 1
  /\ pc' = (IF s + 1 < NS THEN "for" ELSE "while")
  /\ UNCHANGED <<returned, mdpVars, roomVars, restVI, w, threshold, count>>

\* line 324: the while test fails and the method returns V, pi
VIReturn ==
  /\ pc = "while"
  /\ delta < threshold
  /\ pc' = "done"
  /\ UNCHANGED <<returned, mdpVars, roomVars, restVI, w, threshold, V, pi, delta, count, s>>

\* no method is running: the locals hold nothing
NoCall ==
  /\ pc = "idle"
  /\ w = <<0, 0, 0>>
  /\ threshold = 0
  /\ V = <<>>
  /\ pi = <<>>
  /\ delta = 0
  /\ count = 0
  /\ s = 0
  /\ returned = <<>>

\* the object was not built by load_dataset_4rooms
NoRooms == R = {} /\ room = -1 /\ goal_cell = -1

\* the locals of the methods that are not running hold nothing
NoExecute == state = 0 /\ reward = 0 /\ path = <<>>
NoQLearning == Q = <<>> /\ k = 0 /\ train_tasks = <<>> /\ actions = <<>>
NoUvfa == XY = <<>> /\ bsize = 0 /\ epochs = 0 /\ epoch = 0 /\ ib = 0 /\ trained = <<>>
NoSfgpi == VPtrain = <<>> /\ psi = <<>> /\ widx = 0 /\ cand = <<>>

InitVI ==
  /\ \E d \in {"0", "1f", "chain2"} : LoadDataset(d)
  /\ NoCall
  /\ NoRooms
  /\ Wtrain = <<>>
  /\ NoExecute /\ NoQLearning /\ NoUvfa /\ NoSfgpi

NextVI ==
  \/ \E wv \in Tasks, th \in Thresholds : ValueIterationCall(wv, th)
  \/ VIWhile
  \/ VIFor
  \/ VIReturn

SpecVI == InitVI /\ [][NextVI]_vars

\* the whole-call operator computes what the step-by-step call returns:
\* same V and pi at the return
ValueIterationAgrees ==
  pc = "done" =>
    LET r == ValueIteration(Model, w, threshold)
    IN  r.V = V /\ r.pi = pi

(***************************************************************************)
(* Claims about value_iteration                                            *)
(***************************************************************************)
\* max_a sum_s2 T(st, a, s2) * (phi(s2) . w + gamma * V(s2)), written out
\* from the transition tensor
BellmanBackup(st) ==
  LET qa == [a \in Actions(NA) |->
               SumFn([s2 \in States(NS) |->
                        IF <<st, a, s2>> \in T
                        THEN PhiW(phi, w, s2) + Mul(GAMMA, V[s2]) ELSE 0],
                     States(NS))]
  IN  CHOOSE m \in {qa[a] : a \in Actions(NA)} : \A a \in Actions(NA) : qa[a] <= m

\* C1: when value_iteration(w) returns, every state satisfies the Bellman
\* optimality equation within the threshold:
\* |V(s) - max_a sum_s' T(s,a,s') (phi(s').w + gamma V(s'))| < threshold.
C1_BellmanWithinThreshold ==
  pc = "done" => \A st \in States(NS) : Abs(V[st] - BellmanBackup(st)) < threshold

\* C1, witness: a call on the 13-state chain returned after several sweeps
\* with a non-zero value at state 0
C1_Witness == pc = "done" /\ dataset = "0" /\ count > 1 /\ V[0] # 0

\* C2 (as claimed): on the two-state, one-action chain, after the first full
\* sweep and from then on, V[0] equals r = phi(1) . w.
C2_ConvergedAfterOneSweep ==
  (dataset = "chain2" /\ pc \in {"while", "done"} /\ count >= 1)
    => V[0] = PhiW(phi, w, 1)

\* C3 (as claimed): the value of every terminal state s is phi(s) . w, after
\* the initialisation, after every sweep and in the returned V.
C3_TerminalValueFixed ==
  (dataset \in {"0", "1f"} /\ pc \in {"while", "done"})
    => \A i \in States(NS) : is_terminal[i] = 1 => V[i] = PhiW(phi, w, i)

\* the state in which the path taking action 0 everywhere ends
RECURSIVE FirstActionPathEnd(_)
FirstActionPathEnd(st) ==
  IF is_terminal[st] = 1 THEN st
  ELSE FirstActionPathEnd(CHOOSE s2 \in States(NS) : <<st, 0, s2>> \in T)

RECURSIVE GammaPow(_, _)
GammaPow(n, x) == IF n = 0 THEN x ELSE Mul(GAMMA, GammaPow(n - 1, x))

IsC8Call ==
  /\ dataset = "0"
  /\ w = <<SCALE, 0, 0>>
  /\ threshold = SCALE \div 100

\* C8 (as claimed): on load_dataset_0 with w = [1,0,0], V[0] is gamma^k times
\* the feature value reached by the all-first-action path, and the policy's
\* largest probability at state 0 is on action 0.
C8_FirstActionPathValue ==
  (pc = "done" /\ IsC8Call)
    => /\ \E n \in 0..2 : V[0] = GammaPow(n, PhiW(phi, w, FirstActionPathEnd(0)))
       /\ \A a \in 1..2 : pi[0][0] > pi[0][a]

\* C8 (amended): on load_dataset_0 with w = [1,0,0], gamma = 0.9 and the
\* default threshold, V[0] = 0.9 = gamma * phi(5) . w, the value of terminal
\* state 5 reached by action 0 and then action 1 (the all-first-action path
\* ends in state 4, whose feature value under w is 0), and the policy's
\* largest probability at state 0 is on action 0.
C8_ValueAndFirstAction ==
  (pc = "done" /\ IsC8Call)
    => /\ V[0] = 9 * (SCALE \div 10)
       /\ V[0] = Mul(GAMMA, PhiW(phi, w, 5))
       /\ PhiW(phi, w, FirstActionPathEnd(0)) = 0
       /\ \A a \in 1..2 : pi[0][0] > pi[0][a]

\* C8, witness: the call of the scenario has returned
C8_Witness == pc = "done" /\ IsC8Call /\ count = 4
(***************************************************************************)
(* The four-rooms grid: load_dataset_4rooms, change_goal_4rooms,           *)
(* reset_transitions_4rooms, value_iteration_4rooms                        *)
(***************************************************************************)
\* lines 40-53
top_row(x, y) == y = 0
right_column(x, y) == x = 3
bottom_row(x, y) == y = 3
left_column(x, y) == x = 0

\* lines 541-588: the transitions of the four 4x4 rooms and of the four doors
ResetTransitions4Rooms ==
  UNION { UNION { UNION {
      (IF ~top_row(x, y)
         THEN {<<rm * 16 + x + y * 4, 0, rm * 16 + x + (y - 1) * 4>>} ELSE {})
        \cup
      (IF ~right_column(x, y)
         THEN {<<rm * 16 + x + y * 4, 1, rm * 16 + x + 1 + y * 4>>} ELSE {})
        \cup
      (IF ~bottom_row(x, y)
         THEN {<<rm * 16 + x + y * 4, 2, rm * 16 + x + (y + 1) * 4>>} ELSE {})
        \cup
      (IF ~left_column(x, y)
         THEN {<<rm * 16 + x + y * 4, 3, rm * 16 + x - 1 + y * 4>>} ELSE {})
      : x \in 0..3 } : y \in 0..3 } : rm \in 0..3 }
  \cup { <<64, 1, 20>>, <<20, 3, 64>>, <<64, 3, 7>>, <<7, 1, 64>>,
         <<65, 0, 30>>, <<30, 2, 65>>, <<65, 2, 34>>, <<34, 0, 65>>,
         <<66, 1, 40>>, <<40, 3, 66>>, <<66, 3, 59>>, <<59, 1, 66>>,
         <<67, 0, 13>>, <<13, 2, 67>>, <<67, 2, 49>>, <<49, 0, 67>> }

\* ClearRows leaving the rows of the goal as they are
ClearRowsNone(tt, g) == tt

\* lines 91-93 and 135-137: T[goal_cell, a, s] = 0 for every a and s
ClearRows(tt, g) == { tr \in tt : tr[1] # g }

\* lines 102-121: the reward of the door next to the goal, by room
DoorRewards(rm, x, y) ==
  CASE rm = 0 -> (IF x = 3 /\ y = 1 THEN {<<64, 3>>}
                  ELSE IF x = 1 /\ y = 3 THEN {<<67, 0>>} ELSE {})
    [] rm = 1 -> (IF x = 0 /\ y = 1 THEN {<<64, 1>>}
                  ELSE IF x = 2 /\ y = 3 THEN {<<65, 0>>} ELSE {})
    [] rm = 2 -> (IF x = 2 /\ y = 0 THEN {<<65, 2>>}
                  ELSE IF x = 0 /\ y = 2 THEN {<<66, 0>>} ELSE {})
    [] rm = 3 -> (IF x = 1 /\ y = 0 THEN {<<67, 2>>}
                  ELSE IF x = 3 /\ y = 2 THEN {<<66, 3>>} ELSE {})
    [] OTHER -> {}

\* lines 123-131: the rewards of the cells of the room next to the goal g
NeighbourRewards(g, x, y) ==
  (IF ~bottom_row(x, y) THEN {<<g + 4, 0>>} ELSE {})
    \cup (IF ~left_column(x, y) THEN {<<g - 1, 1>>} ELSE {})
    \cup (IF ~top_row(x, y) THEN {<<g - 4, 2>>} ELSE {})
    \cup (IF ~right_column(x, y) THEN {<<g + 1, 3>>} ELSE {})

\* lines 69-93: the object after load_dataset_4rooms (phi is left as the
\* constructor's load_dataset_0 set it)
LoadDataset4Rooms ==
  /\ dataset = "4rooms"
  /\ NS = 68
  /\ NA = 4
  /\ T = ClearRows(ResetTransitions4Rooms, 0)
  /\ phi = Phi0
  /\ R = { <<1, 3>>, <<4, 0>> }
  /\ is_terminal = [i \in States(68) |-> IF i = 0 THEN 1 ELSE 0]
  /\ room = -1
  /\ goal_cell = 0

\* lines 95-139: change_goal_4rooms(room), cell being the draw of
\* random.randint(0, 15); the locals of a returned call are dropped
ChangeGoal4Rooms(rm, cell) ==
  /\ pc \in {"idle", "done"}
  /\ LET x == cell % 4
         y == cell \div 4
         g == cell + rm * 16
     IN  /\ R' = DoorRewards(rm, x, y) \cup NeighbourRewards(g, x, y)
         /\ is_terminal' = [i \in States(NS) |-> IF i = g THEN 1 ELSE 0]
         /\ T' = ClearRows(ResetTransitions4Rooms, g)
         /\ goal_cell' = g
  /\ room' = rm
  /\ pc' = "idle"
  /\ w' = <<0, 0, 0>>
  /\ threshold' = 0
  /\ V' = <<>>
  /\ pi' = <<>>
  /\ delta' = 0
  /\ count' = 0
  /\ s' = 0
  /\ UNCHANGED <<returned, dataset, NS, NA, phi, restVI>>

\* lines 342-349: Q for state st
Q4Row(tt, rw, v, st) ==
  [a \in Actions(4) |->
     LET succ == {s2 \in DOMAIN v : <<st, a, s2>> \in tt}
     IN  IF succ = {} THEN 0
         ELSE LET s_prime == CHOOSE s2 \in succ : \A s3 \in succ : s2 <= s3
              IN  (IF <<st, a>> \in rw THEN SCALE ELSE 0) + Mul(GAMMA, v[s_prime])]

\* lines 340-357: the body of the for loop for state st, in place on V and pi
Update4Rooms(tt, rw, acc, st) ==
  LET q == Q4Row(tt, rw, acc.V, st)
      vs == MaxFn(q)
      ch == Abs(vs - acc.V[st])
  IN  [V |-> [acc.V EXCEPT ![st] = vs],
       pi |-> [acc.pi EXCEPT ![st] = PiRow(q)],
       delta |-> IF ch > acc.delta THEN ch ELSE acc.delta]

\* line 339: the for loop over the states from st on (delta is never
\* negative: its test makes each iteration be evaluated before the next)
RECURSIVE Sweep4Rooms(_, _, _, _)
Sweep4Rooms(tt, rw, acc, st) ==
  IF st = 68 \/ acc.delta < 0 THEN acc
  ELSE Sweep4Rooms(tt, rw, Update4Rooms(tt, rw, acc, st), st + 1)

\* lines 328-335: the call, up to the first test of the while loop
ValueIteration4RoomsCall ==
  /\ pc = "idle"
  /\ w' = <<0, 0, 0>>
  /\ threshold' = SCALE \div 100
  /\ V' = [i \in States(NS) |-> 0]
  /\ pi' = [i \in States(NS) |-> [a \in Actions(NA) |-> 0]]
  /\ delta' = SCALE \div 100
  /\ count' = 0
  /\ s' = 0
  /\ pc' = "while4"
  /\ UNCHANGED <<returned, mdpVars, roomVars, restVI>>

\* lines 336-357: the while test succeeds and one full sweep runs
VI4Sweep ==
  /\ pc = "while4"
  /\ delta >= threshold
  /\ LET r == Sweep4Rooms(T, R, [V |-> V, pi |-> pi, delta |-> 0], 0)
     IN  /\ V' = r.V
         /\ pi' = r.pi
         /\ delta' = r.delta
  /\ count' = count + 1
  /\ UNCHANGED <<returned, mdpVars, roomVars, restVI, pc, w, threshold, s>>

\* line 361: the while test fails and the method returns V, pi
VI4Return ==
  /\ pc = "while4"
  /\ delta < threshold
  /\ pc' = "done"
  /\ UNCHANGED <<returned, mdpVars, roomVars, restVI, w, threshold, V, pi, delta, count, s>>

InitRooms ==
  /\ LoadDataset4Rooms
  /\ NoCall
  /\ Wtrain = <<>>
  /\ NoExecute /\ NoQLearning /\ NoUvfa /\ NoSfgpi

NextRooms ==
  \/ \E rm \in 0..3, cell \in 0..15 : ChangeGoal4Rooms(rm, cell)
  \/ ValueIteration4RoomsCall
  \/ VI4Sweep
  \/ VI4Return

SpecRooms == InitRooms /\ [][NextRooms]_vars

\* C4 (as claimed): after change_goal_4rooms(room), R[s,a] = 1 exactly for
\* the base transitions (s, a) that lead into the new goal cell, the door
\* states 64..67 included.
C4_RewardEdgesIntoGoal ==
  room >= 0 =>
    \A st \in States(NS), a \in Actions(NA) :
      (<<st, a>> \in R) <=> (<<st, a, goal_cell>> \in ResetTransitions4Rooms)
(***************************************************************************)
(* execute, lines 230-237                                                  *)
(***************************************************************************)
\* the rows a policy argument is built from: all the mass on the first
\* action, none on it, and the uniform row
PolicyRows ==
  { <<SCALE, 0, 0>>, <<0, SCALE \div 2, SCALE \div 2>>,
    <<SCALE \div 3, SCALE \div 3, SCALE \div 3>> }

\* row-stochastic policies over the chain: a row for state 0, one for the
\* states 1 and 3, one for state 2, the uniform row at the terminal states
Policies ==
  { [st \in States(13) |->
       [a \in Actions(3) |->
          IF st = 0 THEN r0[a + 1]
          ELSE IF st \in {1, 3} THEN r1[a + 1]
          ELSE IF st = 2 THEN r2[a + 1]
          ELSE SCALE \div 3]]
    : r0 \in PolicyRows, r1 \in PolicyRows, r2 \in PolicyRows }

\* what execute leaves alone
restEx == <<mdpVars, roomVars, Wtrain, threshold, V, delta, count, s, qlVars, uvVars, sfVars>>

\* line 236 with the features of the state that is left
RewardOfLeftState(rw, ph, wv, from, to) == rw + PhiW(ph, wv, from)

\* line 236: reward += self.phi[state] @ w, state being the state entered
RewardPlus(rw, ph, wv, from, to) == rw + PhiW(ph, wv, to)

\* line 232: state, reward = 0, 0.
ExecuteCall(p, wv) ==
  /\ pc = "idle"
  /\ pi' = p
  /\ w' = wv
  /\ state' = 0
  /\ reward' = 0
  /\ path' = <<>>
  /\ pc' = "exec"
  /\ UNCHANGED <<returned, restEx>>

\* lines 233-236: the loop test succeeds; an action is sampled from
\* Categorical(pi[state]), a successor from Categorical(T[state, action, :])
ExecuteStep ==
  /\ pc = "exec"
  /\ is_terminal[state] = 0
  /\ \E a \in Actions(NA), s2 \in States(NS) :
       /\ pi[state][a] > 0
       /\ <<state, a, s2>> \in T
       /\ state' = s2
       /\ reward' = RewardPlus(reward, phi, w, state, s2)
       /\ path' = Append(path, s2)
  /\ UNCHANGED <<returned, pc, pi, w, restEx>>

\* lines 233 and 237: the loop test fails and state, reward are returned
ExecuteReturn ==
  /\ pc = "exec"
  /\ is_terminal[state] # 0
  /\ pc' = "done"
  /\ UNCHANGED <<returned, pi, w, exVars, restEx>>

InitEx ==
  /\ \E d \in {"0", "1f"} : LoadDataset(d)
  /\ NoCall
  /\ NoRooms
  /\ Wtrain = <<>>
  /\ NoExecute /\ NoQLearning /\ NoUvfa /\ NoSfgpi

NextEx ==
  \/ \E p \in Policies, wv \in Tasks : ExecuteCall(p, wv)
  \/ ExecuteStep
  \/ ExecuteReturn

SpecEx == InitEx /\ [][NextEx]_vars

RECURSIVE SumPhiW(_)
SumPhiW(sq) == IF sq = <<>> THEN 0 ELSE PhiW(phi, w, Head(sq)) + SumPhiW(Tail(sq))

\* C10: execute(pi, w) starts at state 0, runs exactly until the current
\* state is terminal, and returns that state with the undiscounted sum of
\* phi(s') . w over the states s' entered; on the chain MDP every execution
\* ends after exactly two transitions in one of the states 4..12.
C10_Execute ==
  pc \in {"exec", "done"} =>
    /\ path = <<>> => state = 0
    /\ path # <<>> => state = path[Len(path)]
    /\ \A n \in 1..(Len(path) - 1) : is_terminal[path[n]] = 0
    /\ reward = SumPhiW(path)
    /\ pc = "done" => /\ is_terminal[state] = 1
                      /\ Len(path) = 2
                      /\ state \in 4..12

\* C10, witness: an execution returned terminal state 11 with a reward
C10_Witness == pc = "done" /\ state = 11 /\ reward # 0 /\ Len(path) = 2
(***************************************************************************)
(* q_learning, lines 239-262                                               *)
(***************************************************************************)
\* lines 723-725: the training tasks of the module's MTRL instance
ExampleWtrain == << <<SCALE, 0, 0>>, <<0, SCALE, 0>> >>

MaxNPerTask == 1

\* lines 241-242: the shuffled arange(Ntrain).repeat(npertask), Ntrain = 2
TrainTaskOrders(npertask) ==
  { sq \in [1..(2 * npertask) -> {0, 1}] :
      Cardinality({n \in 1..(2 * npertask) : sq[n] = 0}) = npertask }

\* lines 243-246: draws of torch.rand for the rows of the non-terminal
\* states, 0 at the terminal states
QInitRows == { Tenths(<<1, 5, 3>>), Tenths(<<7, 2, 2>>) }

QInits ==
  { [st \in States(13) |->
       [a \in Actions(3) |->
          IF ChainTerminal[st] = 1 THEN 0
          ELSE IF st = 0 THEN r0[a + 1] ELSE r0[((a + st) % 3) + 1]]]
    : r0 \in QInitRows }

\* line 251: draws of torch.randint(NA, (NS,))
RandomAssignments == { [st \in States(13) |-> (st + c) % 3] : c \in 0..1 }

\* line 253: Q.argmax(dim=1)
Greedy(q) == [st \in DOMAIN q |-> ArgMax(q[st])]

\* line 258 with the bootstrap taken at the best action of the successor
QUpdateMax(q, st, a, r, s2, a2) ==
  [q EXCEPT ![st][a] = q[st][a] + Mul(ALPHA, r + Mul(GAMMA, MaxFn(q[s2])) - q[st][a])]

\* line 258 writing the entry of the successor, Q[new_state, new_action]
QUpdateSuccessor(q, st, a, r, s2, a2) ==
  [q EXCEPT ![s2][a2] = q[s2][a2] + Mul(ALPHA, r + Mul(GAMMA, q[s2][a2]) - q[st][a])]

\* line 258: Q[state, action] += alpha * (reward + gamma * Q[new_state, new_action] - Q[state, action])
QUpdate(q, st, a, r, s2, a2) ==
  [q EXCEPT ![st][a] = q[st][a] + Mul(ALPHA, r + Mul(GAMMA, q[s2][a2]) - q[st][a])]

\* what q_learning leaves alone
restQL == <<mdpVars, roomVars, Wtrain, w, threshold, V, delta, count, s, reward, path, uvVars, sfVars>>

\* lines 241-246
QLearningCall(order, q0) ==
  /\ pc = "idle"
  /\ train_tasks' = order
  /\ Q' = q0
  /\ k' = 0
  /\ state' = 0
  /\ actions' = <<>>
  /\ pc' = "qfor"
  /\ UNCHANGED <<returned, pi, restQL>>

\* lines 248-249: the next episode starts
QFor ==
  /\ pc = "qfor"
  /\ train_tasks # <<>>
  /\ k' = Head(train_tasks)
  /\ train_tasks' = Tail(train_tasks)
  /\ state' = 0
  /\ pc' = "qwhile"
  /\ UNCHANGED <<returned, pi, Q, actions, restQL>>

\* lines 250-259: one step of the episode
QStep ==
  /\ pc = "qwhile"
  /\ is_terminal[state] = 0
  /\ \E drawn \in RandomAssignments, greedy \in BOOLEAN :
       LET acts == IF greedy THEN Greedy(Q) ELSE drawn
           action == acts[state]
       IN  \E new_state \in States(NS) :
             /\ <<state, action, new_state>> \in T
             /\ actions' = acts
             /\ Q' = QUpdate(Q, state, action, PhiW(phi, Wtrain[k + 1], new_state),
                             new_state, acts[new_state])
             /\ state' = new_state
  /\ UNCHANGED <<returned, pc, pi, k, train_tasks, restQL>>

\* line 250: the episode ends in a terminal state
QWhileExit ==
  /\ pc = "qwhile"
  /\ is_terminal[state] # 0
  /\ pc' = "qfor"
  /\ UNCHANGED <<returned, pi, qlVars, state, restQL>>

\* lines 261-262: pi = softmax(beta * Q); return Q, pi
QReturn ==
  /\ pc = "qfor"
  /\ train_tasks = <<>>
  /\ pi' = [st \in States(NS) |-> PiRow(Q[st])]
  /\ pc' = "done"
  /\ UNCHANGED <<returned, qlVars, state, restQL>>

InitQL ==
  /\ \E d \in {"0", "1f"} : LoadDataset(d)
  /\ NoCall
  /\ NoRooms
  /\ Wtrain = ExampleWtrain
  /\ NoExecute /\ NoQLearning /\ NoUvfa /\ NoSfgpi

NextQL ==
  \/ \E n \in 1..MaxNPerTask : \E order \in TrainTaskOrders(n), q0 \in QInits :
       QLearningCall(order, q0)
  \/ QFor
  \/ QStep
  \/ QWhileExit
  \/ QReturn

SpecQL == InitQL /\ [][NextQL]_vars

\* C9: in every step of q_learning the action a of the current state s and
\* the bootstrap action a' of the successor s' are read from the same
\* assignment (the greedy argmax of the Q before the update, or one random
\* assignment over all states); the step changes only Q[s,a], to
\* Q[s,a] + alpha * (phi(s') . w_k + gamma * Q[s',a'] - Q[s,a]).
C9_QStepUpdate ==
  [][(pc = "qwhile" /\ pc' = "qwhile") =>
       LET a == actions'[state]
           a2 == actions'[state']
       IN  /\ actions' \in RandomAssignments \/ actions' = [st \in States(NS) |-> ArgMax(Q[st])]
           /\ <<state, a, state'>> \in T
           /\ Q'[state][a] = Q[state][a]
                + Mul(ALPHA, PhiW(phi, Wtrain[k + 1], state')
                             + Mul(GAMMA, Q[state'][a2]) - Q[state][a])
           /\ \A st \in States(NS), b \in Actions(NA) :
                (st # state \/ b # a) => Q'[st][b] = Q[st][b]]_vars

\* C9, witness: a second episode's first step bootstrapped from a row that the
\* first episode had updated, under a random assignment
C9_Witness ==
  /\ pc = "qwhile"
  /\ train_tasks = <<>>
  /\ state \in 1..3
  /\ actions \in RandomAssignments
  /\ \E q0 \in QInits : Q[state] # q0[state] /\ Q[0] # q0[0]
(***************************************************************************)
(* uvfa_train, lines 363-392                                               *)
(***************************************************************************)
MaxEpochs == 2

\* line 302: the default threshold of value_iteration
DefaultThreshold == SCALE \div 100

\* lines 365-367: Vtrain[widx] = value_iteration(Wtrain[widx])[0]
Vtrain(m, wtrain) ==
  [n \in 1..Len(wtrain) |-> ValueIteration(m, wtrain[n], DefaultThreshold).V]

\* lines 373-377: row j of XY, the one-hot state j % NS, the task vector of
\* train_tasks[j // NS] and the target Vtrain.flatten().repeat(npertask)[j]
XYRow(m, wtrain, vtrain, j) ==
  [s |-> j % m.NS,
   wt |-> wtrain[((j \div m.NS) % Len(wtrain)) + 1],
   y |-> vtrain[((j % (Len(wtrain) * m.NS)) \div m.NS) + 1][j % m.NS]]

\* line 378: draws of torch.randperm(n)
RandPerms(n) ==
  { [j \in 0..(n - 1) |-> j],
    [j \in 0..(n - 1) |-> n - 1 - j],
    [j \in 0..(n - 1) |-> (j + 1) % n] }

\* line 379: XY.split(bsize), chunks of bsize rows, the last one shorter
Split(rows, bs) ==
  LET n == Len(rows)
      nb == (n + bs - 1) \div bs
  IN  [b \in 1..nb |->
         SubSeq(rows, (b - 1) * bs + 1, IF b * bs < n THEN b * bs ELSE n)]

\* lines 365-379
UvfaTrainCall(npertask, ep, bs, perm) ==
  /\ pc = "idle"
  /\ LET vt == Vtrain(Model, Wtrain)
         n == npertask * Len(Wtrain) * NS
         rows == [j \in 1..n |-> XYRow(Model, Wtrain, vt, perm[j - 1])]
     IN  XY' = Split(rows, bs)
  /\ bsize' = bs
  /\ epochs' = ep
  /\ epoch' = 0
  /\ ib' = 0
  /\ trained' = <<>>
  /\ pc' = "uvfor"
  /\ UNCHANGED <<returned, mdpVars, w, threshold, V, pi, delta, count, s, roomVars,
                 Wtrain, exVars, qlVars, sfVars>>

\* lines 381-382: the next epoch starts
UvfaEpoch ==
  /\ pc = "uvfor"
  /\ epoch < epochs
  /\ ib' = 0
  /\ trained' = <<>>
  /\ pc' = "uvbatch"
  /\ UNCHANGED <<returned, mdpVars, w, threshold, V, pi, delta, count, s, roomVars,
                 Wtrain, exVars, qlVars, sfVars, XY, bsize, epochs, epoch>>

\* lines 383-390: one gradient step, on the batch XY[i]
UvfaBatch ==
  /\ pc = "uvbatch"
  /\ ib < bsize
  /\ ib < Len(XY)
  /\ trained' = Append(trained, ib)
  /\ ib' = ib + 1
  /\ UNCHANGED <<returned, mdpVars, viVars, roomVars, Wtrain, exVars, qlVars, sfVars,
                 XY, bsize, epochs, epoch>>

\* line 385: XY[i] with i past the last batch raises IndexError
UvfaIndexError ==
  /\ pc = "uvbatch"
  /\ ib < bsize
  /\ ib >= Len(XY)
  /\ pc' = "error"
  /\ UNCHANGED <<returned, mdpVars, w, threshold, V, pi, delta, count, s, roomVars,
                 Wtrain, exVars, qlVars, sfVars, uvVars>>

\* line 391: the for loop over range(bsize) is over
UvfaEpochEnd ==
  /\ pc = "uvbatch"
  /\ ib = bsize
  /\ epoch' = epoch + 1
  /\ pc' = "uvfor"
  /\ UNCHANGED <<returned, mdpVars, w, threshold, V, pi, delta, count, s, roomVars,
                 Wtrain, exVars, qlVars, sfVars, XY, bsize, epochs, ib, trained>>

\* line 392
UvfaReturn ==
  /\ pc = "uvfor"
  /\ epoch = epochs
  /\ pc' = "done"
  /\ UNCHANGED <<returned, mdpVars, w, threshold, V, pi, delta, count, s, roomVars,
                 Wtrain, exVars, qlVars, sfVars, uvVars>>

\* line 363: batch sizes of the calls, 10 the default
BSizes == {2, 5, 10}

InitUV ==
  /\ \E d \in {"0", "1f"} : LoadDataset(d)
  /\ NoCall
  /\ NoRooms
  /\ Wtrain = ExampleWtrain
  /\ NoExecute /\ NoQLearning /\ NoUvfa /\ NoSfgpi

NextUV ==
  \/ \E n \in 1..MaxNPerTask, ep \in 1..MaxEpochs, bs \in BSizes :
       \E perm \in RandPerms(n * Len(Wtrain) * NS) : UvfaTrainCall(n, ep, bs, perm)
  \/ UvfaEpoch
  \/ UvfaBatch
  \/ UvfaIndexError
  \/ UvfaEpochEnd
  \/ UvfaReturn

SpecUV == InitUV /\ [][NextUV]_vars

\* C7: in uvfa_train every epoch goes over the whole dataset: when an epoch
\* is over, each mini-batch of the shuffled and split dataset has been used
\* for exactly one gradient step of that epoch.
C7_EveryBatchEveryEpoch ==
  (pc \in {"uvfor", "done"} /\ epoch >= 1) =>
    \A b \in 1..Len(XY) :
      Cardinality({n \in 1..Len(trained) : trained[n] = b - 1}) = 1
(***************************************************************************)
(* sfgpi_train, sfgpi_predict and usfa_predict, lines 453-479 and 524-539  *)
(***************************************************************************)
\* a * b mod SCALE, the part of the product that Mul drops
MulRem(a, b) ==
  LET ah == a \div SqrtScale
      al == a % SqrtScale
      bh == b \div SqrtScale
      bl == b % SqrtScale
      mid == ah * bl + al * bh
  IN  ((mid % SqrtScale) * SqrtScale + al * bl) % SCALE

\* the largest r with r * r <= x * SCALE, bit by bit from the top (r is
\* never negative: its test makes each step be evaluated before the next)
RECURSIVE SqrtBits(_, _, _)
SqrtBits(x, r, bit) ==
  IF bit = 0 \/ r < 0 THEN r
  ELSE LET c == r + bit
           fits == Mul(c, c) < x \/ (Mul(c, c) = x /\ MulRem(c, c) = 0)
       IN  SqrtBits(x, IF fits THEN c ELSE r, bit \div 2)

Sqrt(x) == SqrtBits(x, 0, 2^22)

\* torch.dist(a, b): the 2-norm of a - b
Dist(a, b) ==
  Sqrt(Mul(a[1] - b[1], a[1] - b[1]) + Mul(a[2] - b[2], a[2] - b[2])
         + Mul(a[3] - b[3], a[3] - b[3]))

\* a @ w for a row a of psi
Dot(a, wv) == Mul(a[1], wv[1]) + Mul(a[2], wv[2]) + Mul(a[3], wv[3])

\* pi[s] @ T[s] @ psi, component i
PiTPsi(m, p, ps, st, i) ==
  LET edges == {e \in m.T : e[1] = st}
      term == [e \in edges |-> Mul(p[st][e[2]], ps[e[3]][i])]
  IN  SumFn(term, edges)

\* the update of line 469 with the discount forgotten
SFBackupNoDiscount(m, p, ps, st) ==
  << m.phi[st][1] + PiTPsi(m, p, ps, st, 1),
     m.phi[st][2] + PiTPsi(m, p, ps, st, 2),
     m.phi[st][3] + PiTPsi(m, p, ps, st, 3) >>

\* line 469: phi[s] + gamma * (pi[s] @ T[s] @ psi[widx])
SFBackup(m, p, ps, st) ==
  << m.phi[st][1] + Mul(GAMMA, PiTPsi(m, p, ps, st, 1)),
     m.phi[st][2] + Mul(GAMMA, PiTPsi(m, p, ps, st, 2)),
     m.phi[st][3] + Mul(GAMMA, PiTPsi(m, p, ps, st, 3)) >>

\* lines 468-470: the body of the for loop for state st, in place on psi
SFUpdate(m, p, acc, st) ==
  LET new == SFBackup(m, p, acc.psi, st)
      ch == Dist(new, acc.psi[st])
  IN  [psi |-> [acc.psi EXCEPT ![st] = new],
       delta |-> IF ch > acc.delta THEN ch ELSE acc.delta]

\* line 467: the for loop over the states from st on
RECURSIVE SFSweep(_, _, _, _)
SFSweep(m, p, acc, st) ==
  IF st = m.NS \/ acc.delta < 0 THEN acc
  ELSE SFSweep(m, p, SFUpdate(m, p, acc, st), st + 1)

\* lines 503-508: the while loop of the policy evaluation, from its test on
RECURSIVE SFWhileLoop(_, _, _, _)
SFWhileLoop(m, p, th, acc) ==
  IF acc.delta < th THEN acc
  ELSE SFWhileLoop(m, p, th, SFSweep(m, p, [acc EXCEPT !.delta = 0], 0))

\* lines 499-508: the successor features that usfa_train computes as the
\* targets of the approximator, for the policy p
SuccessorFeatures(m, p, th) ==
  SFWhileLoop(m, p, th, [psi |-> m.phi, delta |-> th]).psi

\* line 476: vmax = (psi @ w).max(dim=0)[0], at state st
VMax(ps, wv, st) == MaxFn([n \in DOMAIN ps |-> Dot(ps[n][st], wv)])

\* lines 477-478: Q = T @ (phi @ w + gamma * vmax); pi = softmax(beta * Q)
GPI(m, ps, wv) ==
  LET vals == [i \in States(m.NS) |-> PhiW(m.phi, wv, i) + Mul(GAMMA, VMax(ps, wv, i))]
  IN  [st \in States(m.NS) |-> PiRow(QRow(m.NA, m.T, st, vals))]

\* lines 455-459
SfgpiTrainCall(th) ==
  /\ pc = "idle"
  /\ threshold' = th
  /\ VPtrain' = [n \in 1..Len(Wtrain) |->
                   LET r == ValueIteration(Model, Wtrain[n], DefaultThreshold)
                   IN  [V |-> r.V, pi |-> r.pi]]
  /\ psi' = [n \in 1..Len(Wtrain) |-> phi]
  /\ widx' = 0
  /\ cand' = Wtrain
  /\ pc' = "sffor"
  /\ UNCHANGED <<returned, mdpVars, w, V, pi, delta, count, s, roomVars, Wtrain,
                 exVars, qlVars, uvVars>>

\* lines 460-463: the next training task
SFFor ==
  /\ pc = "sffor"
  /\ widx < Len(Wtrain)
  /\ delta' = threshold
  /\ pi' = VPtrain[widx + 1].pi
  /\ count' = 0
  /\ pc' = "sfwhile"
  /\ UNCHANGED <<returned, mdpVars, w, threshold, V, s, roomVars, Wtrain,
                 exVars, qlVars, uvVars, sfVars>>

\* lines 464-470: one sweep over the states
SFWhile ==
  /\ pc = "sfwhile"
  /\ delta >= threshold
  /\ LET r == SFSweep(Model, pi, [psi |-> psi[widx + 1], delta |-> 0], 0)
     IN  /\ psi' = [psi EXCEPT ![widx + 1] = r.psi]
         /\ delta' = r.delta
  /\ count' = count + 1
  /\ UNCHANGED <<returned, mdpVars, pc, w, threshold, V, pi, s, roomVars, Wtrain,
                 exVars, qlVars, uvVars, VPtrain, widx, cand>>

\* lines 464 and 471: the policy evaluation of the task has converged
SFWhileExit ==
  /\ pc = "sfwhile"
  /\ delta < threshold
  /\ widx' = widx + 1
  /\ pc' = "sffor"
  /\ UNCHANGED <<returned, mdpVars, w, threshold, V, pi, delta, count, s, roomVars,
                 Wtrain, exVars, qlVars, uvVars, VPtrain, psi, cand>>

\* line 472
SfgpiTrainReturn ==
  /\ pc = "sffor"
  /\ widx = Len(Wtrain)
  /\ pc' = "trained"
  /\ UNCHANGED <<returned, mdpVars, w, threshold, V, pi, delta, count, s, roomVars,
                 Wtrain, exVars, qlVars, uvVars, sfVars>>

\* lines 474-479: sfgpi_predict(psi, w) with the psi of sfgpi_train
SfgpiPredict(wv) ==
  /\ pc = "trained"
  /\ w' = wv
  /\ pi' = GPI(Model, psi, wv)
  /\ pc' = "predicted"
  /\ UNCHANGED <<returned, mdpVars, threshold, V, delta, count, s, roomVars,
                 Wtrain, exVars, qlVars, uvVars, sfVars>>

\* lines 524-539: usfa_predict(usfn, w, C) with a usfn that returns, for
\* (s, c), the successor features of the policy of task c (the zvalues and
\* the targets of lines 496-508, held in VPtrain and psi)
UsfaPredict(wv, C) ==
  /\ pc = "idle"
  /\ w' = wv
  /\ cand' = C
  /\ VPtrain' = [n \in 1..Len(C) |->
                   LET r == ValueIteration(Model, C[n], DefaultThreshold)
                   IN  [V |-> r.V, pi |-> r.pi]]
  /\ psi' = [n \in 1..Len(C) |->
               SuccessorFeatures(Model, VPtrain'[n].pi, DefaultThreshold)]
  /\ pi' = GPI(Model, psi', wv)
  /\ pc' = "predicted"
  /\ UNCHANGED <<returned, mdpVars, threshold, V, delta, count, s, roomVars,
                 Wtrain, exVars, qlVars, uvVars, widx>>

\* lines 643 and 723: training tasks of the MTRL instances, the wtrain of
\* the module and the two halves of the wtrain of simulate_1f
WtrainSets ==
  { ExampleWtrain,
    << <<SCALE, -2 * SCALE, 0>>, <<-2 * SCALE, SCALE, 0>> >>,
    << <<SCALE, -SCALE, 0>>, <<-SCALE, SCALE, 0>> >> }

InitSF ==
  /\ \E d \in {"0", "1f"} : LoadDataset(d)
  /\ NoCall
  /\ NoRooms
  /\ Wtrain \in WtrainSets
  /\ NoExecute /\ NoQLearning /\ NoUvfa /\ NoSfgpi

NextSF ==
  \/ \E th \in Thresholds : SfgpiTrainCall(th)
  \/ SFFor
  \/ SFWhile
  \/ SFWhileExit
  \/ SfgpiTrainReturn
  \/ \E wv \in Tasks : SfgpiPredict(wv)
  \/ \E wv \in Tasks : \E C \in {<<wv>>, Wtrain} : UsfaPredict(wv, C)

SpecSF == InitSF /\ [][NextSF]_vars
\* the right-hand side of the fixed point for training task n at state st:
\* phi(s) + gamma * sum_a pi(s,a) * sum_s' T(s,a,s') * psi(s')
SFFixedPointRhs(n, st) ==
  LET edges == {e \in T : e[1] = st}
      next(i) == SumFn([e \in edges |-> Mul(VPtrain[n].pi[st][e[2]], psi[n][e[3]][i])],
                       edges)
  IN  << phi[st][1] + Mul(GAMMA, next(1)),
         phi[st][2] + Mul(GAMMA, next(2)),
         phi[st][3] + Mul(GAMMA, next(3)) >>

\* C6: for every training task, the successor features that sfgpi_train
\* returns satisfy psi(s) = phi(s) + gamma * sum_a pi(s,a) sum_s' T(s,a,s')
\* psi(s') within the threshold at every state s, with psi(s) = phi(s) at
\* the terminal states; pi is the policy of the task's value iteration.
C6_SFFixedPoint ==
  pc = "trained" =>
    \A n \in 1..Len(Wtrain) : \A st \in States(NS) :
      /\ Dist(psi[n][st], SFFixedPointRhs(n, st)) < threshold
      /\ is_terminal[st] = 1 => psi[n][st] = phi[st]

\* C6, witness: sfgpi_train returned with the default threshold after more
\* than one sweep, with successor features at state 0 that discount the
\* features of the terminal states twice
C6_Witness ==
  /\ pc = "trained"
  /\ threshold = DefaultThreshold
  /\ count >= 2
  /\ \E n \in 1..Len(Wtrain) : \E i \in 1..NP :
       psi[n][0][i] > 0 /\ psi[n][1][i] > psi[n][0][i]

\* the expected undiscounted return of execute(p, wv) from state st
RECURSIVE ExpectedReturn(_, _, _, _)
ExpectedReturn(m, p, wv, st) ==
  IF m.is_terminal[st] = 1 THEN 0
  ELSE LET edges == {e \in m.T : e[1] = st}
           term == [e \in edges |->
                      Mul(p[st][e[2]],
                          PhiW(m.phi, wv, e[3]) + ExpectedReturn(m, p, wv, e[3]))]
       IN  SumFn(term, edges)

\* the expected discounted return of the policy p on wv from state st
RECURSIVE DiscountedReturn(_, _, _, _)
DiscountedReturn(m, p, wv, st) ==
  IF m.is_terminal[st] = 1 THEN 0
  ELSE LET edges == {e \in m.T : e[1] = st}
           term == [e \in edges |->
                      Mul(p[st][e[2]],
                          PhiW(m.phi, wv, e[3])
                            + Mul(GAMMA, DiscountedReturn(m, p, wv, e[3])))]
       IN  SumFn(term, edges)

\* returns are compared up to the rounding of the arithmetic
ReturnTol == SCALE \div 10^3

\* C5: when the candidate set holds the test task w itself, the policy of
\* sfgpi_predict (and of usfa_predict with exact successor features) has an
\* expected return on w that is at least the expected return on w of the
\* source policy of every candidate.
C5_GPIImprovement ==
  (pc = "predicted" /\ \E n \in 1..Len(cand) : cand[n] = w) =>
    \A n \in 1..Len(cand) :
      /\ ExpectedReturn(Model, pi, w, 0) + ReturnTol
           >= ExpectedReturn(Model, VPtrain[n].pi, w, 0)
      /\ DiscountedReturn(Model, pi, w, 0) + ReturnTol
           >= DiscountedReturn(Model, VPtrain[n].pi, w, 0)
(***************************************************************************)
(* value_iteration called again on the same object, lines 302-324          *)
(***************************************************************************)
\* lines 594-595: the training and test tasks of example()
ExampleTasks ==
  { <<SCALE, 0, 0>>, <<0, SCALE, 0>>, <<SCALE, SCALE, 0>>, <<0, 0, SCALE>> }

\* lines 304-311: a further call on the object, after a call has returned;
\* the arguments and the result of that call are remembered in returned
ValueIterationAgain(wv, th) ==
  /\ pc = "done"
  /\ returned' = << [w |-> w, threshold |-> threshold, V |-> V, pi |-> pi] >>
  /\ w' = wv
  /\ threshold' = th
  /\ V' = VInit(NS, phi, is_terminal, wv)
  /\ pi' = [i \in States(NS) |-> [a \in Actions(NA) |-> 0]]
  /\ delta' = th
  /\ count' = 0
  /\ s' = 0
  /\ pc' = "while"
  /\ UNCHANGED <<mdpVars, roomVars, restVI>>

NextVIAgain ==
  \/ \E wv \in ExampleTasks, th \in Thresholds : ValueIterationCall(wv, th)
  \/ VIWhile
  \/ VIFor
  \/ VIReturn
  \/ \E wv \in ExampleTasks, th \in Thresholds : ValueIterationAgain(wv, th)

SpecVIAgain == InitVI /\ [][NextVIAgain]_vars

\* C11: a call of value_iteration with the arguments of the call before it
\* returns the same V and pi, and calls leave T, phi, the terminal mask and
\* the task set of the object as the loader built them.
C11_SameInputsSameResult ==
  /\ LoadDataset(dataset)
  /\ Wtrain = <<>>
  /\ (pc = "done" /\ returned # <<>>
        /\ returned[1].w = w /\ returned[1].threshold = threshold)
       => (returned[1].V = V /\ returned[1].pi = pi)

\* C11, witness: a second call with the arguments of the first has returned
\* on the 13-state chain, with threshold 2 and a value at state 0
C11_Witness ==
  /\ pc = "done"
  /\ returned # <<>>
  /\ returned[1].w = w /\ returned[1].threshold = threshold
  /\ NS = 13 /\ V[0] > 0 /\ threshold = 2 * SCALE
(***************************************************************************)
(* Sweeps and snapshots, lines 315-322, 339-357 and 467-470                *)
(***************************************************************************)
\* a sweep of value_iteration_4rooms in which every state reads the values
\* v of the sweep before
SyncSweep4(tt, rw, v) == [st \in States(68) |-> MaxFn(Q4Row(tt, rw, v, st))]

\* C12: within one sweep the update of every state reads only the values of
\* the sweep before: the values after a sweep of value_iteration_4rooms are
\* those of a synchronous sweep over the snapshot taken when it started.
C12_SweepReadsSnapshot ==
  [][(pc = "while4" /\ count' = count + 1) => V' = SyncSweep4(T, R, V)]_vars
(***************************************************************************)
(* The four-rooms object after any sequence of goal changes, lines 69-139  *)
(***************************************************************************)
\* C13: after load_dataset_4rooms and any sequence of change_goal_4rooms
\* calls exactly one state is terminal, it lies in the room of the last
\* call (states room*16 .. room*16+15), no transition leaves it, every
\* other state (every earlier goal included) has the outgoing transitions
\* that reset_transitions_4rooms builds, and every row T[s,a,:] holds at
\* most one 1.
C13_OneGoalRowsRestored ==
  dataset = "4rooms" =>
    /\ {st \in States(NS) : is_terminal[st] = 1} = {goal_cell}
    /\ room # -1 => goal_cell \in (room * 16) .. (room * 16 + 15)
    /\ \A e \in T : e[1] # goal_cell
    /\ {e \in T : e[1] # goal_cell}
         = {e \in ResetTransitions4Rooms : e[1] # goal_cell}
    /\ \A st \in States(NS) : \A a \in Actions(NA) :
         Cardinality({s2 \in States(NS) : <<st, a, s2>> \in T}) <= 1

\* C13, witness: the goal was moved from state 0, where the loader put it,
\* to state 40 of room 2, and state 0 has its two transitions again
C13_Witness ==
  /\ dataset = "4rooms"
  /\ room = 2 /\ goal_cell = 40
  /\ is_terminal[0] = 0
  /\ Cardinality({e \in T : e[1] = 0}) = 2
(***************************************************************************)
(* Termination of the sweeps, lines 310-324 and 334-361                    *)
(***************************************************************************)
\* the sweeps of one call that the model follows
MaxSweeps == 20

InitTerm == InitVI \/ InitRooms

\* value_iteration runs on the chain objects, the four-rooms methods on the
\* four-rooms object
NextTerm ==
  \/ dataset # "4rooms" /\ \E wv \in Tasks, th \in Thresholds : ValueIterationCall(wv, th)
  \/ count < MaxSweeps /\ VIWhile
  \/ VIFor
  \/ VIReturn
  \/ dataset = "4rooms" /\ \E rm \in 0..3, cell \in 0..15 : ChangeGoal4Rooms(rm, cell)
  \/ dataset = "4rooms" /\ ValueIteration4RoomsCall
  \/ count < MaxSweeps /\ VI4Sweep
  \/ VI4Return

\* lines 312-314 and 336-338: a sweep starts (only a sweep advances count)
SweepStarts ==
  /\ pc \in {"while", "while4"}
  /\ delta >= threshold
  /\ count < MaxSweeps
  /\ count' = count + 1

\* line 315: the for loop moves on to the next state
StateSwept == pc = "for" /\ s' = s + 1

\* lines 324 and 361: the while test fails and the call returns
CallReturns ==
  /\ pc \in {"while", "while4"}
  /\ delta < threshold
  /\ pc' = "done"

\* a call that has started keeps running: the interpreter takes the next
\* step of a loop whenever there is one (weak fairness on the steps of the
\* loops; the calls themselves are up to the caller)
SpecTerm ==
  /\ InitTerm
  /\ [][NextTerm]_vars
  /\ WF_count(SweepStarts)
  /\ WF_s(StateSwept)
  /\ WF_pc(CallReturns)

\* C14: the value-iteration loops terminate: every running call of
\* value_iteration (chain MDP, every task of the bounded set) and of
\* value_iteration_4rooms (every goal that change_goal_4rooms places)
\* reaches a sweep whose largest change is below the threshold and returns.
C14_Terminates == (pc \in {"while", "for", "while4"}) ~> (pc = "done")

\* C14, witness: a call of value_iteration_4rooms has returned after more
\* than ten sweeps, the last one with a largest change below the threshold
C14_Witness ==
  /\ dataset = "4rooms"
  /\ pc = "done"
  /\ count > 10
  /\ delta < threshold
(***************************************************************************)
(* The rows of the terminal states in q_learning, lines 243-259            *)
(***************************************************************************)
\* C15: throughout q_learning every entry Q[s,a] of a terminal state s is
\* 0: the rows are zeroed at initialisation and no update writes to them.
C15_TerminalRowsZero ==
  Q # <<>> =>
    \A st \in States(NS) : is_terminal[st] = 1 =>
      \A a \in Actions(NA) : Q[st][a] = 0

\* C15, witness: q_learning has returned after episodes that entered
\* terminal states and updated the rows of the states before them
C15_Witness ==
  /\ pc = "done"
  /\ Q # <<>>
  /\ is_terminal[state] = 1
  /\ \E st \in 1..3 : \A q0 \in QInits : Q[st] # q0[st]
====
